---- MODULE Spec2Model ----
(***************************************************************************)
(* Prerequisite resolver, reward tally and toggle cascade of the game      *)
(* checklist tracker (app/models.py, app/routes.py), for one tracked       *)
(* instance (UserChecklist) of one checklist.                              *)
(*                                                                         *)
(* Encoding of the database rows:                                          *)
(*   - ids are positive integers; 0 stands for NULL / None (falsy in       *)
(*     Python, as the code's `if prereq.prerequisite_item_id:` tests);     *)
(*   - item.prerequisites is a sequence (relationship order = row order);  *)
(*   - an ItemReward row (item, reward, amount) is rewards[reward] =       *)
(*     amount, 0 meaning "no row";                                         *)
(*   - locations / categories are 1..n, 0 is NULL;                         *)
(*   - completed_at is a time stamp 1..MaxTime, 0 is NULL.                 *)
(***************************************************************************)
EXTENDS Integers, Sequences, FiniteSets, TLC

\* ------------------------------------------------------------------ bounds
\* items of a checklist of the general family (Init)
NumItems == 3
\* items of a pure chain checklist (InitChain)
ChainLen == 4
\* items that depend on the same item in a fan checklist (InitFan)
FanOut == 2
NumRewards == 1
\* largest grant amount / required amount
MaxAmount == 2
\* distinct values of datetime.utcnow()
MaxTime == 2
\* prerequisite rows / grant rows of a checklist of the general family
MaxPrereqRows == 2
MaxGrantRows == 2
\* items of an acyclic checklist with item prerequisites only (InitDag)
DagSize == 4
\* distinct location tags / category tags of the tagged families
NumLocations == 2
NumCategories == 1
\* users that copy the checklist, largest item id and largest instance id of
\* the family of copies (InitSync)
NumUsers == 2
MaxItemId == 3
MaxCopyId == 3

Rewards == 1..NumRewards
Times == 1..MaxTime

\* Depth of nested resolver calls the interpreter allows before it raises
\* RecursionError (sys.getrecursionlimit()); far above any depth the resolver
\* reaches on the checklists considered here.
RecursionLimit == NumItems + ChainLen + FanOut + 3

\* ------------------------------------------------------------------- state
VARIABLES
    items,      \* ChecklistItem rows: id -> [location, category, rewards, prerequisites]
    progress,   \* UserProgress rows of the tracked instance: item id -> row
    response,   \* what the last request returned to the caller
    cascade,    \* locals of a get_affected_items_recursive call in progress
    user_checklists,  \* UserChecklist rows of all users (copy / delete_copy)
    user_progress     \* UserProgress rows of all instances (copy / sync / delete)

vars == <<items, progress, response, cascade, user_checklists, user_progress>>

\* the two tables of all instances; the specifications that follow one
\* tracked instance keep that instance's rows in progress and leave the
\* tables out
tables == <<user_checklists, user_progress>>
NoTables == user_checklists = {} /\ user_progress = <<>>

\* ChecklistItem.query.filter_by(checklist_id=checklist_id): the ids
Items == DOMAIN items

\* ------------------------------------------------------------ row builders
\* ItemPrerequisite(item_id=.., prerequisite_item_id=j)
ItemPrereq(j) ==
    [prerequisite_item_id |-> j, prerequisite_reward_id |-> 0, reward_amount |-> 1,
     consumes_reward |-> FALSE, reward_location |-> 0, reward_category |-> 0,
     freeform_text |-> 0]

\* ItemPrerequisite(item_id=.., prerequisite_reward_id=r, reward_amount=a, ...)
RewardPrereq(r, a, consumes, loc, cat) ==
    [prerequisite_item_id |-> 0, prerequisite_reward_id |-> r, reward_amount |-> a,
     consumes_reward |-> consumes, reward_location |-> loc, reward_category |-> cat,
     freeform_text |-> 0]

\* ItemPrerequisite(item_id=.., freeform_text=text); text 0 is the empty record
FreeformPrereq(text) ==
    [prerequisite_item_id |-> 0, prerequisite_reward_id |-> 0, reward_amount |-> 1,
     consumes_reward |-> FALSE, reward_location |-> 0, reward_category |-> 0,
     freeform_text |-> text]

\* UserProgress rows
NoRow == [exists |-> FALSE, completed |-> FALSE, completed_at |-> 0]
ProgressRow(c, t) == [exists |-> TRUE, completed |-> c, completed_at |-> t]

\* IsCompleted written as `if progress and not progress.completed`: a missing
\* row passes
IsCompleted_MissingRowPasses(prog, i) == ~prog[i].exists \/ prog[i].completed

\* `not progress or not progress.completed`, negated
IsCompleted(prog, i) == prog[i].exists /\ prog[i].completed

\* user_checklist.progress_items.filter_by(completed=True)
completed_item_ids(prog) == {i \in Items : IsCompleted(prog, i)}

\* sum of f[i] over the finite set S
RECURSIVE SumOver(_, _)
SumOver(f, S) ==
    IF S = {} THEN 0
    ELSE LET x == CHOOSE y \in S : TRUE IN f[x] + SumOver(f, S \ {x})

\* the elements of a set of integers as an ascending sequence (query by id)
RECURSIVE SortedSeq(_)
SortedSeq(S) ==
    IF S = {} THEN <<>>
    ELSE LET m == CHOOSE x \in S : \A y \in S : x <= y
         IN <<m>> \o SortedSeq(S \ {m})

InSeq(x, s) == \E k \in 1..Len(s) : s[k] = x

\* ---------------------------------------------------- models.py: shallow
\* get_reward_tally whose category filter is not applied
get_reward_tally_IgnoresCategory(prog, reward_id, location, category) ==
    LET matching == {i \in completed_item_ids(prog) :
                        /\ items[i].rewards[reward_id] > 0
                        /\ (location # 0 => items[i].location = location)}
    IN SumOver([i \in Items |-> items[i].rewards[reward_id]], matching)

\* UserChecklist.get_reward_tally(reward_id, location, category), reward_id given
get_reward_tally(prog, reward_id, location, category) ==
    LET matching == {i \in completed_item_ids(prog) :
                        /\ items[i].rewards[reward_id] > 0
                        /\ (location # 0 => items[i].location = location)
                        /\ (category # 0 => items[i].category = category)}
    IN SumOver([i \in Items |-> items[i].rewards[reward_id]], matching)

\* ShallowUnmet whose last branch appends freeform prerequisites to unmet
ShallowUnmet_FreeformBlocks(prog, prereq) ==
    IF prereq.prerequisite_item_id # 0
    THEN ~IsCompleted(prog, prereq.prerequisite_item_id)
    ELSE IF prereq.prerequisite_reward_id # 0
    THEN get_reward_tally(prog, prereq.prerequisite_reward_id,
                          prereq.reward_location, prereq.reward_category)
         < (IF prereq.reward_amount # 0 THEN prereq.reward_amount ELSE 1)
    ELSE prereq.freeform_text # 0

\* ShallowUnmet that ends in an `else: unmet.append(prereq)` for the records
\* of no known type
ShallowUnmet_EmptyRecordBlocks(prog, prereq) ==
    IF prereq.prerequisite_item_id # 0
    THEN ~IsCompleted(prog, prereq.prerequisite_item_id)
    ELSE IF prereq.prerequisite_reward_id # 0
    THEN get_reward_tally(prog, prereq.prerequisite_reward_id,
                          prereq.reward_location, prereq.reward_category)
         < (IF prereq.reward_amount # 0 THEN prereq.reward_amount ELSE 1)
    ELSE prereq.freeform_text = 0

\* one iteration of the loop of ChecklistItem.are_prerequisites_met: is prereq unmet
ShallowUnmet(prog, prereq) ==
    IF prereq.prerequisite_item_id # 0
    THEN ~IsCompleted(prog, prereq.prerequisite_item_id)
    ELSE IF prereq.prerequisite_reward_id # 0
    THEN LET collected == get_reward_tally(prog, prereq.prerequisite_reward_id,
                                           prereq.reward_location, prereq.reward_category)
             required == IF prereq.reward_amount # 0 THEN prereq.reward_amount ELSE 1
         IN collected < required
    ELSE FALSE

\* ChecklistItem.are_prerequisites_met(user_checklist_id): unmet is the
\* sequence of positions of the unmet prerequisites
are_prerequisites_met(prog, i) ==
    LET ps == items[i].prerequisites
        unmet == SelectSeq([k \in 1..Len(ps) |-> k], LAMBDA k : ShallowUnmet(prog, ps[k]))
    IN [met |-> Len(unmet) = 0, unmet |-> unmet]

\* ------------------------------- UserChecklist: consumed / available tallies
\* (called by tests/test_available_rewards.py and
\* tests/test_insufficient_rewards_highlighting.py; the methods themselves are
\* not part of app/models.py, they follow the design document)
\* the positions of the reward prerequisites of item i
reward_prereq_positions(i) ==
    {k \in 1..Len(items[i].prerequisites) : items[i].prerequisites[k].prerequisite_item_id = 0
                                           /\ items[i].prerequisites[k].prerequisite_reward_id # 0}

\* the amount a reward prerequisite asks for: `prereq.reward_amount or 1`
required_amount(prereq) == IF prereq.reward_amount # 0 THEN prereq.reward_amount ELSE 1

\* the amount item i consumes of reward_id: the required amounts of its
\* consuming prerequisites, selected by the prerequisite's own filters
consumed_by_item(i, reward_id, location, category) ==
    LET ps == items[i].prerequisites
        rows == {k \in reward_prereq_positions(i) :
                    /\ ps[k].prerequisite_reward_id = reward_id
                    /\ ps[k].consumes_reward
                    /\ (location # 0 => ps[k].reward_location = location)
                    /\ (category # 0 => ps[k].reward_category = category)}
    IN SumOver([k \in 1..Len(ps) |-> required_amount(ps[k])], rows)

\* get_consumed_rewards that selects by the consuming item's own tags instead
\* of the prerequisite's filters
get_consumed_rewards_ByItemTags(prog, reward_id, location, category) ==
    SumOver([i \in Items |-> consumed_by_item(i, reward_id, 0, 0)],
            {i \in completed_item_ids(prog) :
                /\ (location # 0 => items[i].location = location)
                /\ (category # 0 => items[i].category = category)})

\* UserChecklist.get_consumed_rewards(reward_id, location, category): what the
\* completed items consume
get_consumed_rewards(prog, reward_id, location, category) ==
    SumOver([i \in Items |-> consumed_by_item(i, reward_id, location, category)],
            completed_item_ids(prog))

\* UserChecklist.get_available_rewards(reward_id, location, category):
\* collected minus consumed, clamped at 0
get_available_rewards(prog, reward_id, location, category) ==
    LET collected == get_reward_tally(prog, reward_id, location, category)
        consumed == get_consumed_rewards(prog, reward_id, location, category)
    IN IF collected > consumed THEN collected - consumed ELSE 0

\* UserChecklist.get_items_with_insufficient_rewards(): for every (reward,
\* location filter, category filter) of a consuming prerequisite whose consumed
\* amount exceeds the collected amount, all completed items holding a
\* consuming prerequisite with exactly that combination; as the set of ids
get_items_with_insufficient_rewards(prog) ==
    {i \in completed_item_ids(prog) :
        \E k \in reward_prereq_positions(i) :
            LET p == items[i].prerequisites[k]
            IN /\ p.consumes_reward
               /\ get_consumed_rewards(prog, p.prerequisite_reward_id,
                                       p.reward_location, p.reward_category)
                  > get_reward_tally(prog, p.prerequisite_reward_id,
                                     p.reward_location, p.reward_category)}

\* ---------------------------------------------------- routes.py: chained
RECURSIVE are_prerequisites_met_with_chaining(_, _, _, _)
RECURSIVE ChainedPrereqLoop(_, _, _, _, _)
RECURSIVE get_available_rewards_with_chaining(_, _, _, _, _, _)

\* get_available_rewards_with_chaining without the `continue` of lines
\* 850-851: a granting item found in checked_items is checked like the others
\* (and passes by the cycle guard)
get_available_rewards_with_chaining_NoSkip(prog, reward_id, location, category, checked, depth) ==
    LET results == {i \in completed_item_ids(prog) :
                        /\ items[i].rewards[reward_id] > 0
                        /\ (location # 0 => items[i].location = location)
                        /\ (category # 0 => items[i].category = category)}
        sub == [i \in results |->
                    are_prerequisites_met_with_chaining(prog, i, checked, depth + 1)]
        counted == {i \in results : sub[i].met}
    IN [total  |-> SumOver([i \in Items |-> items[i].rewards[reward_id]], counted),
        raised |-> \E i \in results : sub[i].raised]

\* get_available_rewards_with_chaining whose filter of line 821 is inverted:
\* the grants of the items that are not completed are counted
get_available_rewards_with_chaining_UncompletedOnly(prog, reward_id, location, category, checked, depth) ==
    [total  |-> SumOver([i \in Items |-> items[i].rewards[reward_id]],
                        {i \in Items \ completed_item_ids(prog) :
                            /\ items[i].rewards[reward_id] > 0
                            /\ (location # 0 => items[i].location = location)
                            /\ (category # 0 => items[i].category = category)}),
     raised |-> FALSE]

\* get_available_rewards_with_chaining without the completed=True filter of
\* line 821 and without the recursive check: every matching grant is counted
get_available_rewards_with_chaining_CountsUncompleted(prog, reward_id, location, category, checked, depth) ==
    [total  |-> SumOver([i \in Items |-> items[i].rewards[reward_id]],
                        {i \in Items : /\ items[i].rewards[reward_id] > 0
                                       /\ (location # 0 => items[i].location = location)
                                       /\ (category # 0 => items[i].category = category)}),
     raised |-> FALSE]

\* get_available_rewards_with_chaining(user_checklist_id, reward_id, location,
\* category, checked_items): [total, raised].  Every granting item is checked
\* with its own copy of checked_items, so the order of the rows has no effect.
get_available_rewards_with_chaining(prog, reward_id, location, category, checked, depth) ==
    IF completed_item_ids(prog) = {} THEN [total |-> 0, raised |-> FALSE]
    ELSE
    LET results == {i \in completed_item_ids(prog) :
                        /\ items[i].rewards[reward_id] > 0
                        /\ (location # 0 => items[i].location = location)
                        /\ (category # 0 => items[i].category = category)}
        considered == results \ checked
        sub == [i \in considered |->
                    are_prerequisites_met_with_chaining(prog, i, checked, depth + 1)]
        counted == {i \in considered : sub[i].met}
    IN [total  |-> SumOver([i \in Items |-> items[i].rewards[reward_id]], counted),
        raised |-> \E i \in considered : sub[i].raised]

\* the loop `for prereq in item.prerequisites` from position k on; acc carries
\* unmet, the shared (mutated) checked_items set and whether a call raised;
\* counted records, per reward prerequisite, the value of `collected` compared
\* at line 785
ChainedPrereqLoop(prog, i, k, acc, depth) ==
    LET ps == items[i].prerequisites IN
    IF acc.raised \/ k > Len(ps) THEN acc
    ELSE
    LET prereq == ps[k] IN
    IF prereq.prerequisite_item_id # 0
    THEN IF ~IsCompleted(prog, prereq.prerequisite_item_id)
         THEN ChainedPrereqLoop(prog, i, k + 1,
                                [acc EXCEPT !.unmet = Append(@, k)], depth)
         ELSE LET sub == are_prerequisites_met_with_chaining(
                              prog, prereq.prerequisite_item_id, acc.checked, depth + 1)
              IN ChainedPrereqLoop(prog, i, k + 1,
                     [unmet   |-> IF sub.met THEN acc.unmet ELSE Append(acc.unmet, k),
                      checked |-> sub.checked,
                      raised  |-> sub.raised,
                      counted |-> acc.counted], depth)
    ELSE IF prereq.prerequisite_reward_id # 0
    THEN LET collected == get_available_rewards_with_chaining(
                              prog, prereq.prerequisite_reward_id, prereq.reward_location,
                              prereq.reward_category, acc.checked, depth)
             required == IF prereq.reward_amount # 0 THEN prereq.reward_amount ELSE 1
         IN ChainedPrereqLoop(prog, i, k + 1,
                [unmet   |-> IF collected.total < required
                             THEN Append(acc.unmet, k) ELSE acc.unmet,
                 checked |-> acc.checked,
                 raised  |-> collected.raised,
                 counted |-> Append(acc.counted,
                                    [position |-> k, collected |-> collected.total])], depth)
    ELSE ChainedPrereqLoop(prog, i, k + 1, acc, depth)

\* are_prerequisites_met_with_chaining without the recursive call of lines
\* 756-764: a prerequisite item counts as soon as it is stored completed
are_prerequisites_met_with_chaining_StoredFlagsOnly(prog, i, checked, depth) ==
    [met |-> are_prerequisites_met(prog, i).met, unmet |-> are_prerequisites_met(prog, i).unmet,
     checked |-> checked \cup {i}, raised |-> FALSE, counted |-> <<>>]

\* are_prerequisites_met_with_chaining without the check of lines 735-736
are_prerequisites_met_with_chaining_NoCycleGuard(prog, i, checked, depth) ==
    IF depth > RecursionLimit
    THEN [met |-> FALSE, unmet |-> <<>>, checked |-> checked, raised |-> TRUE,
          counted |-> <<>>]
    ELSE LET r == ChainedPrereqLoop(prog, i, 1,
                      [unmet |-> <<>>, checked |-> checked \cup {i}, raised |-> FALSE,
                       counted |-> <<>>],
                      depth)
         IN [met |-> ~r.raised /\ Len(r.unmet) = 0, unmet |-> r.unmet,
             checked |-> r.checked, raised |-> r.raised, counted |-> r.counted]

\* are_prerequisites_met_with_chaining(item, user_checklist_id, checked_items):
\* [met, unmet, checked, raised, counted]; checked is checked_items as the call
\* leaves it (the caller's set object is mutated); raised = RecursionError
are_prerequisites_met_with_chaining(prog, i, checked, depth) ==
    IF depth > RecursionLimit
    THEN [met |-> FALSE, unmet |-> <<>>, checked |-> checked, raised |-> TRUE,
          counted |-> <<>>]
    ELSE IF i \in checked
    THEN [met |-> TRUE, unmet |-> <<>>, checked |-> checked, raised |-> FALSE,
          counted |-> <<>>]
    ELSE LET r == ChainedPrereqLoop(prog, i, 1,
                      [unmet |-> <<>>, checked |-> checked \cup {i}, raised |-> FALSE,
                       counted |-> <<>>],
                      depth)
         IN [met |-> ~r.raised /\ Len(r.unmet) = 0, unmet |-> r.unmet,
             checked |-> r.checked, raised |-> r.raised, counted |-> r.counted]

\* a top-level chained check, checked_items=None
Chained(prog, i) == are_prerequisites_met_with_chaining(prog, i, {}, 1)
Satisfied(prog, i) == Chained(prog, i).met

\* ------------------------------------------------------ routes.py: cascade
\* ItemPrerequisite.query.filter_by(prerequisite_item_id=item_id).all(), as the
\* sequence of the rows' item_id (rows in id order: by item, then position)
RECURSIVE DependentRowsFrom(_, _, _)
DependentRowsFrom(item_id, j, k) ==
    IF j \notin Items THEN <<>>
    ELSE IF k > Len(items[j].prerequisites) THEN DependentRowsFrom(item_id, j + 1, 1)
    ELSE (IF items[j].prerequisites[k].prerequisite_item_id = item_id
          THEN <<j>> ELSE <<>>) \o DependentRowsFrom(item_id, j, k + 1)

dependent_prereqs(item_id) == DependentRowsFrom(item_id, 1, 1)

\* any(prereq.prerequisite_reward_id for prereq in check_item.prerequisites)
has_reward_prereq(j) ==
    \E k \in 1..Len(items[j].prerequisites) :
        items[j].prerequisites[k].prerequisite_reward_id # 0

\* [ir.reward_id for ir in item.rewards]
item_reward_ids(i) == {r \in Rewards : items[i].rewards[r] > 0}

\* append to queue, in order, the candidates that pass `blocked` and are not
\* yet in the queue (when dedup) 
RECURSIVE AppendEach(_, _, _, _)
AppendEach(queue, cand, blocked, dedup) ==
    IF cand = <<>> THEN queue
    ELSE LET x == Head(cand)
             skip == x \in blocked \/ (dedup /\ InSeq(x, queue))
         IN AppendEach(IF skip THEN queue ELSE Append(queue, x), Tail(cand), blocked, dedup)

\* _add_dependent_items that enqueues nothing (a cascade of direct dependents only)
_add_dependent_items_Nothing(item_id, items_to_check, processed_items) == items_to_check

\* _add_dependent_items without the items that require item_id
_add_dependent_items_RewardsOnly(item_id, items_to_check, processed_items) ==
    LET ids == item_reward_ids(item_id)
        cand == SelectSeq(SortedSeq(Items), LAMBDA j :
                    \E k \in 1..Len(items[j].prerequisites) :
                        items[j].prerequisites[k].prerequisite_reward_id \in ids)
    IN IF ids = {} THEN items_to_check
       ELSE AppendEach(items_to_check, cand, processed_items, TRUE)

\* _add_dependent_items(item_id, checklist_id, items_to_check, processed_items):
\* the queue after the call
_add_dependent_items(item_id, items_to_check, processed_items) ==
    LET q1 == AppendEach(items_to_check, dependent_prereqs(item_id), processed_items, TRUE)
        ids == item_reward_ids(item_id)
        cand == SelectSeq(SortedSeq(Items), LAMBDA j :
                    \E k \in 1..Len(items[j].prerequisites) :
                        items[j].prerequisites[k].prerequisite_reward_id \in ids)
    IN IF ids = {} THEN q1 ELSE AppendEach(q1, cand, processed_items, TRUE)

\* CascadeSeed without the scan for items with reward prerequisites
CascadeSeed_ItemPrereqsOnly(changed_item_id) ==
    LET processed == {changed_item_id}
    IN [items_to_check  |-> AppendEach(<<>>, dependent_prereqs(changed_item_id), processed, FALSE),
        processed_items |-> processed,
        unlocked_items  |-> <<>>,
        locked_items    |-> <<>>,
        evaluated       |-> <<>>,
        raised          |-> FALSE]

\* CascadeSeed with processed_items starting empty
CascadeSeed_ProcessedEmpty(changed_item_id) ==
    LET q1 == AppendEach(<<>>, dependent_prereqs(changed_item_id), {}, FALSE)
        cand == SelectSeq(SortedSeq(Items \ {changed_item_id}), LAMBDA j : has_reward_prereq(j))
    IN [items_to_check  |-> AppendEach(q1, cand, {}, TRUE),
        processed_items |-> {},
        unlocked_items  |-> <<>>,
        locked_items    |-> <<>>,
        evaluated       |-> <<>>,
        raised          |-> FALSE]

\* get_affected_items_recursive, lines 881-915: the locals before the loop.
\* evaluated is a history of the loop, not a local of the code: the items
\* are_prerequisites_met_with_chaining was called for (line 931), in order;
\* raised: that call raised RecursionError
CascadeSeed(changed_item_id) ==
    LET processed == {changed_item_id}
        q1 == AppendEach(<<>>, dependent_prereqs(changed_item_id), processed, FALSE)
        cand == SelectSeq(SortedSeq(Items), LAMBDA j : has_reward_prereq(j))
    IN [items_to_check  |-> AppendEach(q1, cand, processed, TRUE),
        processed_items |-> processed,
        unlocked_items  |-> <<>>,
        locked_items    |-> <<>>,
        evaluated       |-> <<>>,
        raised          |-> FALSE]

\* CascadeIter with a checked_items set that outlives the call (a mutable
\* default argument): the items evaluated earlier in the loop are still in it
CascadeIter_SharedChecked(prog, c) ==
    LET item_id == Head(c.items_to_check)
        rest == Tail(c.items_to_check)
    IN IF item_id \in c.processed_items
       THEN [c EXCEPT !.items_to_check = rest]
       ELSE
       LET processed == c.processed_items \cup {item_id}
           r == are_prerequisites_met_with_chaining(prog, item_id,
                                                    {c.evaluated[k] : k \in 1..Len(c.evaluated)}, 1)
       IN IF r.met
          THEN [c EXCEPT !.items_to_check = _add_dependent_items(item_id, rest, processed),
                         !.processed_items = processed,
                         !.evaluated = Append(@, item_id),
                         !.unlocked_items = Append(@, item_id)]
          ELSE [c EXCEPT !.items_to_check = _add_dependent_items(item_id, rest, processed),
                         !.processed_items = processed,
                         !.evaluated = Append(@, item_id),
                         !.locked_items = Append(@, item_id)]

\* one iteration of `while items_to_check:` (lines 918-944)
CascadeIter(prog, c) ==
    LET item_id == Head(c.items_to_check)
        rest == Tail(c.items_to_check)
    IN IF item_id \in c.processed_items
       THEN [c EXCEPT !.items_to_check = rest]
       ELSE
       LET processed == c.processed_items \cup {item_id}
           r == Chained(prog, item_id)
       IN IF r.raised
          THEN [c EXCEPT !.items_to_check = rest, !.processed_items = processed,
                         !.evaluated = Append(@, item_id), !.raised = TRUE]
          ELSE IF r.met
          THEN IF ~InSeq(item_id, c.unlocked_items)
               THEN [c EXCEPT !.items_to_check = _add_dependent_items(item_id, rest, processed),
                              !.processed_items = processed,
                              !.evaluated = Append(@, item_id),
                              !.unlocked_items = Append(@, item_id)]
               ELSE [c EXCEPT !.items_to_check = rest, !.processed_items = processed,
                              !.evaluated = Append(@, item_id)]
          ELSE IF ~InSeq(item_id, c.locked_items)
               THEN [c EXCEPT !.items_to_check = _add_dependent_items(item_id, rest, processed),
                              !.processed_items = processed,
                              !.evaluated = Append(@, item_id),
                              !.locked_items = Append(@, item_id)]
               ELSE [c EXCEPT !.items_to_check = rest, !.processed_items = processed,
                              !.evaluated = Append(@, item_id)]

RECURSIVE CascadeLoop(_, _)
CascadeLoop(prog, c) ==
    IF c.raised \/ c.items_to_check = <<>> THEN c
    ELSE CascadeLoop(prog, CascadeIter(prog, c))

\* get_affected_items_recursive(checklist_id, user_checklist_id, changed_item_id,
\* is_now_completed); is_now_completed is never read by the code
get_affected_items_recursive(prog, changed_item_id, is_now_completed) ==
    CascadeLoop(prog, CascadeSeed(changed_item_id))

\* ------------------------------------------------------- routes.py: toggle
NoResponse ==
    [op |-> "none", item |-> 0, kind |-> "none", status |-> 0, success |-> FALSE,
     error |-> "", completed |-> FALSE, unlocked_items |-> <<>>, locked_items |-> <<>>]

\* no cascade call in progress
IdleCascade ==
    [pc |-> "idle", changed_item_id |-> 0,
     locals |-> [items_to_check |-> <<>>, processed_items |-> {}, unlocked_items |-> <<>>,
                 locked_items |-> <<>>, evaluated |-> <<>>, raised |-> FALSE]]

\* ToggledProgress that also un-completes the completed items requiring an
\* item that is un-completed
ToggledProgress_UnchecksDependents(prog, i, t) ==
    LET was == IsCompleted(prog, i)
    IN [j \in DOMAIN prog |->
            IF j = i THEN ProgressRow(~was, IF was THEN 0 ELSE t)
            ELSE IF was /\ IsCompleted(prog, j) /\ InSeq(j, dependent_prereqs(i))
            THEN ProgressRow(FALSE, 0)
            ELSE prog[j]]

\* lines 1032-1034: the progress the handler commits; only the toggled row is
\* written
ToggledProgress(prog, i, t) ==
    LET was == IsCompleted(prog, i)
    IN [prog EXCEPT ![i] = ProgressRow(~was, IF was THEN 0 ELSE t)]

\* lines 1043-1048: the JSON body built from the cascade's result c; an
\* exception out of the cascade is a 500 after the commit
JsonResponse(prog, i, c) ==
    IF c.raised
    THEN [NoResponse EXCEPT !.op = "toggle", !.item = i, !.kind = "error",
                            !.status = 500, !.error = "RecursionError",
                            !.completed = IsCompleted(prog, i)]
    ELSE [NoResponse EXCEPT !.op = "toggle", !.item = i, !.kind = "json",
                            !.status = 200, !.success = TRUE,
                            !.completed = IsCompleted(prog, i),
                            !.unlocked_items = c.unlocked_items,
                            !.locked_items = c.locked_items]

\* line 1051: the redirect of a non-AJAX request
RedirectResponse(prog, i) ==
    [NoResponse EXCEPT !.op = "toggle", !.item = i, !.kind = "redirect",
                       !.status = 302, !.success = TRUE,
                       !.completed = IsCompleted(prog, i)]

\* what toggle_progress returns after the commit (lines 1036-1051)
ToggleResponse(prog, i, ajax) ==
    IF ajax
    THEN JsonResponse(prog, i, get_affected_items_recursive(prog, i, IsCompleted(prog, i)))
    ELSE RedirectResponse(prog, i)

\* the early return of lines 1018-1030
RejectResponse(i, ajax) ==
    IF ajax
    THEN [NoResponse EXCEPT !.op = "toggle", !.item = i, !.kind = "json", !.status = 400,
                            !.error = "Prerequisites not met"]
    ELSE [NoResponse EXCEPT !.op = "toggle", !.item = i, !.kind = "redirect",
                            !.status = 302,
                            !.error = "Cannot complete this item - prerequisites not met!"]

\* Rejected without the `not progress.completed` test of line 1018: the gate
\* guards both directions of the toggle
Rejected_AlsoOnUncheck(prog, i) == ~are_prerequisites_met(prog, i).met

\* Rejected that looks at item prerequisites only
Rejected_IgnoresRewards(prog, i) ==
    /\ ~IsCompleted(prog, i)
    /\ \E k \in 1..Len(items[i].prerequisites) :
          /\ items[i].prerequisites[k].prerequisite_item_id # 0
          /\ ~IsCompleted(prog, items[i].prerequisites[k].prerequisite_item_id)

\* lines 1017-1020: the handler returns early instead of toggling
Rejected(prog, i) == ~IsCompleted(prog, i) /\ ~are_prerequisites_met(prog, i).met

\* POST /checklist/<id>/progress/<item_id>/toggle by the owner of the instance;
\* ajax: the request is JSON / XMLHttpRequest; t is datetime.utcnow(), read
\* only when the item becomes completed.  A row created for a missing progress
\* entry is committed with the toggle and discarded with the early return.
toggle_progress(i, ajax) ==
    /\ cascade.pc = "idle"
    /\ UNCHANGED <<items, cascade, tables>>
    /\ IF Rejected(progress, i)
       THEN /\ progress' = progress
            /\ response' = RejectResponse(i, ajax)
       ELSE /\ \E t \in (IF IsCompleted(progress, i) THEN {0} ELSE Times) :
                  progress' = ToggledProgress(progress, i, t)
            /\ response' = ToggleResponse(progress', i, ajax)

Next == \E i \in Items, ajax \in BOOLEAN : toggle_progress(i, ajax)

\* --------------------------------------------------------- routes.py: view
\* lines 301-311: reward_tallies, keyed by (reward, location, category) of
\* every prerequisite row that names a reward
view_reward_tallies(prog) ==
    LET rows == UNION {{items[i].prerequisites[k] : k \in 1..Len(items[i].prerequisites)} :
                          i \in Items}
        keys == {<<p.prerequisite_reward_id, p.reward_location, p.reward_category>> :
                    p \in {q \in rows : q.prerequisite_reward_id # 0}}
    IN [key \in keys |-> get_reward_tally(prog, key[1], key[2], key[3])]

\* lines 313-327: the stored flag, the lock status and the effective
\* completion of every item, with the shallow check
view_item_locked(prog) == [i \in Items |-> ~are_prerequisites_met(prog, i).met]

\* what view hands to the template (lines 329-331)
ViewResponse(prog) ==
    [op |-> "view", item |-> 0, kind |-> "html", status |-> 200, success |-> TRUE,
     error |-> "", completed |-> FALSE, unlocked_items |-> <<>>, locked_items |-> <<>>,
     progress |-> [i \in Items |-> IsCompleted(prog, i)],
     item_locked |-> view_item_locked(prog),
     effective_progress |-> [i \in Items |-> IsCompleted(prog, i)
                                              /\ are_prerequisites_met(prog, i).met],
     reward_tallies |-> view_reward_tallies(prog)]

\* GET /checklist/<id> by the owner of the instance: nothing is written
view ==
    /\ cascade.pc = "idle"
    /\ response' = ViewResponse(progress)
    /\ UNCHANGED <<items, progress, cascade, tables>>

\* toggles and page views, in any order
NextView ==
    \/ \E i \in Items, ajax \in BOOLEAN : toggle_progress(i, ajax)
    \/ view

\* --------------------------------------- one AJAX toggle, loop step by step
\* toggle_progress up to the call of get_affected_items_recursive (line 1039),
\* with the locals of lines 881-915 set up
toggle_commit(i) ==
    /\ cascade.pc = "idle"
    /\ UNCHANGED <<items, tables>>
    /\ IF Rejected(progress, i)
       THEN /\ progress' = progress
            /\ response' = RejectResponse(i, TRUE)
            /\ cascade' = [cascade EXCEPT !.pc = "done", !.changed_item_id = i]
       ELSE /\ \E t \in (IF IsCompleted(progress, i) THEN {0} ELSE Times) :
                  progress' = ToggledProgress(progress, i, t)
            /\ response' = response
            /\ cascade' = [pc |-> "loop", changed_item_id |-> i, locals |-> CascadeSeed(i)]

\* one iteration of the while loop of get_affected_items_recursive
cascade_iteration ==
    /\ cascade.pc = "loop"
    /\ cascade.locals.items_to_check # <<>>
    /\ ~cascade.locals.raised
    /\ cascade' = [cascade EXCEPT !.locals = CascadeIter(progress, @)]
    /\ UNCHANGED <<items, progress, response, tables>>

\* the loop is left (line 946) and toggle_progress returns
toggle_return ==
    /\ cascade.pc = "loop"
    /\ cascade.locals.items_to_check = <<>> \/ cascade.locals.raised
    /\ response' = JsonResponse(progress, cascade.changed_item_id, cascade.locals)
    /\ cascade' = [cascade EXCEPT !.pc = "done"]
    /\ UNCHANGED <<items, progress, tables>>

NextCascade ==
    \/ \E i \in Items : toggle_commit(i)
    \/ cascade_iteration
    \/ toggle_return

\* ------------------------- routes.py: copy, add_item, batch_update, delete_copy
\* All users' instances of one public checklist.  user_checklists is the set of
\* UserChecklist rows [id, user_id]; user_progress maps (user_checklist_id,
\* item_id) to the UserProgress rows with these two columns, oldest first (the
\* table has no unique constraint); keys without rows are not in its domain.
Users == 1..NumUsers

\* a new ChecklistItem of a form or batch entry without rewards and prerequisites
PlainItem ==
    [location |-> 0, category |-> 0, rewards |-> [r \in Rewards |-> 0], prerequisites |-> <<>>]

\* the id the database gives to the next row of a table whose ids are S
NextId(S) == IF S = {} THEN 1 ELSE (CHOOSE m \in S : \A x \in S : x <= m) + 1

\* UserChecklist.query.filter_by(user_id=u, checklist_id=..): all, and .first()
copies_of(u) == {c \in user_checklists : c.user_id = u}
first_copy(u) == CHOOSE c \in copies_of(u) : \A d \in copies_of(u) : c.id <= d.id

\* db.session.add(UserProgress(user_checklist_id, item_id, completed=False))
AddProgressRow(up, key) ==
    [k \in DOMAIN up \cup {key} |->
        IF k = key
        THEN (IF key \in DOMAIN up THEN up[key] ELSE <<>>) \o <<ProgressRow(FALSE, 0)>>
        ELSE up[k]]

RECURSIVE AddProgressRows(_, _)
AddProgressRows(up, keys) ==
    IF keys = {} THEN up
    ELSE LET key == CHOOSE k \in keys : TRUE
         IN AddProgressRows(AddProgressRow(up, key), keys \ {key})

\* ChecklistItem.sync_progress_for_new_item(item_id, checklist_id): every
\* instance of the checklist that has no row for the item gets one, not
\* completed
sync_progress_for_new_item(up, item_id) ==
    AddProgressRows(up, {<<c.id, item_id>> : c \in user_checklists} \ DOMAIN up)

\* lines 695-701 of copy: one row per item of the checklist
CopyProgress(up, copy_id) ==
    AddProgressRows(up, {<<copy_id, i>> : i \in Items})

\* UserProgress.query.filter_by(item_id=item_id).delete() left out of the
\* deletion loop of batch_update
DeleteProgressOfItems_KeepsRows(up, deleted) == up

\* lines 623-625: UserProgress.query.filter_by(item_id=item_id).delete(), for
\* every deleted item
DeleteProgressOfItems(up, deleted) ==
    [k \in {key \in DOMAIN up : key[2] \notin deleted} |-> up[k]]

\* the relationship UserChecklist.progress_items without cascade: rows stay
DeleteProgressOfCopy_NoCascade(up, copy_id) == up

\* cascade='all, delete-orphan' of UserChecklist.progress_items (models.py
\* 180-181): the rows of a deleted instance are deleted with it
DeleteProgressOfCopy(up, copy_id) ==
    [k \in {key \in DOMAIN up : key[1] # copy_id} |-> up[k]]

\* the answer of a request of this group
SyncResponse(op, u, kind, status, success, error) ==
    [NoResponse EXCEPT !.op = op, !.item = u, !.kind = kind, !.status = status,
                       !.success = success, !.error = error]

\* copy without the lookup of an existing instance (lines 682-689)
copy_NoExistingCheck(u) ==
    /\ NextId({c.id : c \in user_checklists}) <= MaxCopyId
    /\ LET id == NextId({c.id : c \in user_checklists})
       IN /\ user_checklists' = user_checklists \cup {[id |-> id, user_id |-> u]}
          /\ user_progress' = CopyProgress(user_progress, id)
    /\ response' = SyncResponse("copy", u, "redirect", 302, TRUE, "")
    /\ UNCHANGED <<items, progress, cascade>>

\* POST /checklist/<id>/copy by user u
copy(u) ==
    /\ IF copies_of(u) # {}
       THEN /\ response' = SyncResponse("copy", u, "redirect", 302, FALSE,
                                        "You already have a copy of this checklist!")
            /\ UNCHANGED tables
       ELSE /\ NextId({c.id : c \in user_checklists}) <= MaxCopyId
            /\ LET id == NextId({c.id : c \in user_checklists})
               IN /\ user_checklists' = user_checklists \cup {[id |-> id, user_id |-> u]}
                  /\ user_progress' = CopyProgress(user_progress, id)
            /\ response' = SyncResponse("copy", u, "redirect", 302, TRUE, "")
    /\ UNCHANGED <<items, progress, cascade>>

\* items with a new item appended: id and row
WithNewItem(its) ==
    [i \in DOMAIN its \cup {NextId(DOMAIN its)} |->
        IF i \in DOMAIN its THEN its[i] ELSE PlainItem]

\* POST /checklist/<id>/add_item by the creator, valid form
add_item ==
    /\ NextId(Items) <= MaxItemId
    /\ items' = WithNewItem(items)
    /\ user_progress' = sync_progress_for_new_item(user_progress, NextId(Items))
    /\ response' = SyncResponse("add_item", 1, "redirect", 302, TRUE, "")
    /\ UNCHANGED <<progress, cascade, user_checklists>>

\* lines 523-537 for the `new` entries of a batch, in order
RECURSIVE BatchCreate(_, _, _)
BatchCreate(its, up, n) ==
    IF n = 0 THEN [items |-> its, user_progress |-> up]
    ELSE BatchCreate(WithNewItem(its),
                     AddProgressRows(up, {<<c.id, NextId(DOMAIN its)>> : c \in user_checklists}
                                         \ DOMAIN up),
                     n - 1)

\* POST /checklist/<id>/batch-update by the creator: created `new` entries,
\* deleted_items = deleted; the entries of existing items carry no rewards and
\* no prerequisites
batch_update(created, deleted) ==
    /\ created + Cardinality(deleted) > 0
    /\ (IF Items = {} THEN created ELSE NextId(Items) + created - 1) <= MaxItemId
    /\ LET c == BatchCreate(items, user_progress, created)
           kept == DOMAIN c.items \ deleted
       IN /\ items' = [i \in kept |-> c.items[i]]
          /\ user_progress' = DeleteProgressOfItems(c.user_progress, deleted)
    /\ response' = SyncResponse("batch_update", 1, "json", 200, TRUE, "")
    /\ UNCHANGED <<progress, cascade, user_checklists>>

\* POST /checklist/<id>/delete-copy by user u
delete_copy(u) ==
    /\ IF copies_of(u) = {}
       THEN /\ response' = SyncResponse("delete_copy", u, "error", 404, FALSE, "Not Found")
            /\ UNCHANGED tables
       ELSE /\ user_checklists' = user_checklists \ {first_copy(u)}
            /\ user_progress' = DeleteProgressOfCopy(user_progress, first_copy(u).id)
            /\ response' = SyncResponse("delete_copy", u, "redirect", 302, TRUE, "")
    /\ UNCHANGED <<items, progress, cascade>>

\* the rows of instance copy_id as toggle_progress and the resolver query
\* them: per item the first row, or none
InstanceProgress(copy_id) ==
    [i \in Items |-> IF <<copy_id, i>> \in DOMAIN user_progress
                     THEN Head(user_progress[<<copy_id, i>>]) ELSE NoRow]

\* POST /checklist/<id>/progress/<item_id>/toggle by user u, who has an
\* instance; the toggled row is written back to the table (a missing row is
\* created, lines 1007-1015)
toggle_progress_of(u, i, ajax) ==
    /\ copies_of(u) # {}
    /\ UNCHANGED <<items, progress, cascade>>
    /\ LET id == first_copy(u).id
           prog == InstanceProgress(id)
       IN IF Rejected(prog, i)
          THEN /\ UNCHANGED tables
               /\ response' = RejectResponse(i, ajax)
          ELSE /\ \E t \in (IF IsCompleted(prog, i) THEN {0} ELSE Times) :
                     user_progress' =
                        [k \in DOMAIN user_progress \cup {<<id, i>>} |->
                            IF k # <<id, i>> THEN user_progress[k]
                            ELSE <<ToggledProgress(prog, i, t)[i]>>
                                 \o (IF k \in DOMAIN user_progress
                                     THEN Tail(user_progress[k]) ELSE <<>>)]
               /\ user_checklists' = user_checklists
               /\ response' = ToggleResponse(InstanceProgress(id)', i, ajax)

\* the requests of all users on the checklist and its instances
NextSync ==
    \/ \E u \in Users : copy(u)
    \/ add_item
    \/ \E created \in 0..2, deleted \in SUBSET Items : batch_update(created, deleted)
    \/ \E u \in Users : delete_copy(u)
    \/ \E u \in Users, i \in Items, ajax \in BOOLEAN : toggle_progress_of(u, i, ajax)

\* ------------------------------------------------------------ initial states
\* General family: NumItems items; every item has up to two prerequisite rows,
\* each an item prerequisite on any item (itself included, so cycles occur) or
\* a reward prerequisite without filters; at most MaxPrereqRows prerequisite
\* rows and MaxGrantRows grant rows in the whole checklist.
PrereqPool(ids) ==
    {ItemPrereq(j) : j \in ids}
    \cup {RewardPrereq(r, a, FALSE, 0, 0) : r \in Rewards, a \in 1..MaxAmount}

PrereqSeqs(ids) ==
    {<<>>} \cup {<<p>> : p \in PrereqPool(ids)}
           \cup {<<p, q>> : p \in PrereqPool(ids), q \in PrereqPool(ids)}

ItemRows(ids) ==
    [location : {0}, category : {0}, rewards : [Rewards -> 0..MaxAmount],
     prerequisites : PrereqSeqs(ids)]

PrereqRowCount(its) ==
    SumOver([i \in DOMAIN its |-> Len(its[i].prerequisites)], DOMAIN its)

GrantRowCount(its) ==
    SumOver([i \in DOMAIN its |-> Cardinality({r \in Rewards : its[i].rewards[r] > 0})],
            DOMAIN its)

\* progress as the program's own writes leave it: a row per item (copy creates
\* them), completed_at set exactly when completed.  Prerequisites can be edited
\* after progress was made (batch_update), so every combination of stored
\* flags occurs with every checklist.
ProgressStates(ids) == [ids -> {ProgressRow(FALSE, 0), ProgressRow(TRUE, 1)}]

Init ==
    /\ items \in [1..NumItems -> ItemRows(1..NumItems)]
    /\ PrereqRowCount(items) <= MaxPrereqRows
    /\ GrantRowCount(items) <= MaxGrantRows
    /\ progress \in ProgressStates(1..NumItems)
    /\ response = NoResponse
    /\ cascade = IdleCascade
    /\ NoTables

\* the checklist 1 -> 2 -> ... -> ChainLen: item k requires item k-1 and nothing
\* else, item 1 requires nothing; no rewards
ChainItems ==
    [k \in 1..ChainLen |->
        [location |-> 0, category |-> 0, rewards |-> [r \in Rewards |-> 0],
         prerequisites |-> IF k = 1 THEN <<>> ELSE <<ItemPrereq(k - 1)>>]]

InitChain ==
    /\ items = ChainItems
    /\ progress \in ProgressStates(1..ChainLen)
    /\ response = NoResponse
    /\ cascade = IdleCascade
    /\ NoTables

\* a fan: item 1 requires nothing, items 2..FanOut+1 each require item 1 and
\* nothing else, and one more item has a reward prerequisite; any item may grant
\* the reward
FanItems(amount, grants) ==
    [k \in 1..(FanOut + 2) |->
        [location |-> 0, category |-> 0, rewards |-> grants[k],
         prerequisites |-> IF k = 1 THEN <<>>
                           ELSE IF k <= FanOut + 1 THEN <<ItemPrereq(1)>>
                           ELSE <<RewardPrereq(1, amount, FALSE, 0, 0)>>]]

InitFan ==
    /\ \E amount \in 1..MaxAmount, grants \in [1..(FanOut + 2) -> [Rewards -> 0..MaxAmount]] :
          /\ items = FanItems(amount, grants)
          /\ GrantRowCount(items) <= MaxGrantRows
    /\ progress \in ProgressStates(1..(FanOut + 2))
    /\ response = NoResponse
    /\ cascade = IdleCascade
    /\ NoTables

\* acyclic checklists with item prerequisites only: item k requires any subset
\* of the items 1..k-1 (so diamonds and chains occur), its rows in ascending or
\* in descending order of the required item; no rewards
Reverse(s) == [k \in 1..Len(s) |-> s[Len(s) + 1 - k]]

ItemPrereqRows(S) ==
    LET asc == [k \in 1..Cardinality(S) |-> ItemPrereq(SortedSeq(S)[k])]
    IN {asc, Reverse(asc)}

DagItemRows(k) ==
    {[location |-> 0, category |-> 0, rewards |-> [r \in Rewards |-> 0], prerequisites |-> ps] :
        ps \in UNION {ItemPrereqRows(S) : S \in SUBSET (1..(k - 1))}}

InitDag ==
    /\ items \in [1..DagSize -> UNION {DagItemRows(k) : k \in 1..DagSize}]
    /\ \A k \in 1..DagSize : items[k] \in DagItemRows(k)
    /\ progress \in ProgressStates(1..DagSize)
    /\ response = NoResponse
    /\ cascade = IdleCascade
    /\ NoTables

\* reward ledgers: NumItems untagged items, each granting any amount and
\* holding at most one reward prerequisite without filters, consuming or not;
\* at most MaxPrereqRows prerequisite rows and MaxGrantRows grant rows
LedgerPool ==
    {RewardPrereq(r, a, c, 0, 0) : r \in Rewards, a \in 1..MaxAmount, c \in BOOLEAN}

LedgerItemRows ==
    [location : {0}, category : {0}, rewards : [Rewards -> 0..MaxAmount],
     prerequisites : {<<>>} \cup {<<p>> : p \in LedgerPool}]

InitLedger ==
    /\ items \in [1..NumItems -> LedgerItemRows]
    /\ PrereqRowCount(items) <= MaxPrereqRows
    /\ GrantRowCount(items) <= MaxGrantRows
    /\ progress \in ProgressStates(1..NumItems)
    /\ response = NoResponse
    /\ cascade = IdleCascade
    /\ NoTables

\* mixed acyclic checklists: item 1 grants and requires nothing, item 2 grants
\* and may require item 1, item 3 grants nothing and holds up to two distinct
\* prerequisite rows, in any order, on item 1, on item 2 or on the reward
MixedPool ==
    {ItemPrereq(1), ItemPrereq(2)}
    \cup {RewardPrereq(r, a, FALSE, 0, 0) : r \in Rewards, a \in 1..MaxAmount}

MixedItems(g1, g2, p2, p3) ==
    <<[location |-> 0, category |-> 0, rewards |-> g1, prerequisites |-> <<>>],
      [location |-> 0, category |-> 0, rewards |-> g2, prerequisites |-> p2],
      [location |-> 0, category |-> 0, rewards |-> [r \in Rewards |-> 0], prerequisites |-> p3]>>

InitMixed ==
    /\ \E g1, g2 \in [Rewards -> 0..MaxAmount], p2 \in {<<>>, <<ItemPrereq(1)>>},
          p3 \in {<<>>} \cup {<<p>> : p \in MixedPool}
                       \cup {pq \in MixedPool \X MixedPool : pq[1] # pq[2]} :
          items = MixedItems(g1, g2, p2, p3)
    /\ progress \in ProgressStates(1..3)
    /\ response = NoResponse
    /\ cascade = IdleCascade
    /\ NoTables

\* tagged providers: items 1 and 2 carry any location and category tag and
\* grant 1..MaxAmount units; item 3 is untagged and requires MaxAmount units
\* counted with any location / category filter
Locations == 0..NumLocations
Categories == 0..NumCategories

TallyItems(l1, c1, g1, l2, c2, g2, p3) ==
    <<[location |-> l1, category |-> c1, rewards |-> g1, prerequisites |-> <<>>],
      [location |-> l2, category |-> c2, rewards |-> g2, prerequisites |-> <<>>],
      [location |-> 0, category |-> 0, rewards |-> [r \in Rewards |-> 0],
       prerequisites |-> <<p3>>]>>

InitTally ==
    /\ \E l1, l2, l3 \in Locations, c1, c2, c3 \in Categories,
          g1, g2 \in [Rewards -> 1..MaxAmount], r \in Rewards :
          items = TallyItems(l1, c1, g1, l2, c2, g2, RewardPrereq(r, MaxAmount, FALSE, l3, c3))
    /\ progress \in ProgressStates(1..3)
    /\ response = NoResponse
    /\ cascade = IdleCascade
    /\ NoTables

\* consumers: item 1 grants MaxAmount units and carries any tags; item 2 is
\* at location 1 and holds one reward prerequisite, consuming or not, of any
\* amount and filter; item 3 is untagged and holds a consuming prerequisite of
\* 1 unit with any filter
ConsumerItems(l1, c1, p2, p3) ==
    <<[location |-> l1, category |-> c1, rewards |-> [r \in Rewards |-> MaxAmount],
       prerequisites |-> <<>>],
      [location |-> 1, category |-> 0, rewards |-> [r \in Rewards |-> 0],
       prerequisites |-> <<p2>>],
      [location |-> 0, category |-> 0, rewards |-> [r \in Rewards |-> 0],
       prerequisites |-> <<p3>>]>>

InitConsumers ==
    /\ \E l1, f2, f3 \in Locations, c1, d2, d3 \in Categories,
          r2, r3 \in Rewards, a2 \in 1..MaxAmount, consumes \in BOOLEAN :
          items = ConsumerItems(l1, c1, RewardPrereq(r2, a2, consumes, f2, d2),
                                RewardPrereq(r3, 1, TRUE, f3, d3))
    /\ progress \in ProgressStates(1..3)
    /\ response = NoResponse
    /\ cascade = IdleCascade
    /\ NoTables

\* checklists with notes: NumItems untagged items, item 1 may grant; every
\* item holds up to two prerequisite rows, each a freeform note, a record with
\* no populated column, an item prerequisite or a reward prerequisite; at most
\* MaxPrereqRows rows in the checklist
NotesPool(ids) ==
    {FreeformPrereq(1), FreeformPrereq(0)} \cup PrereqPool(ids)

NotesItemRows(ids, grants) ==
    [location : {0}, category : {0}, rewards : grants,
     prerequisites : {<<>>} \cup {<<p>> : p \in NotesPool(ids)}
                            \cup {<<pq[1], pq[2]>> : pq \in NotesPool(ids) \X NotesPool(ids)}]

InitNotes ==
    /\ items \in [1..NumItems -> NotesItemRows(1..NumItems, [Rewards -> 0..MaxAmount])]
    /\ \A i \in 2..NumItems : \A r \in Rewards : items[i].rewards[r] = 0
    /\ PrereqRowCount(items) <= MaxPrereqRows
    /\ progress \in ProgressStates(1..NumItems)
    /\ response = NoResponse
    /\ cascade = IdleCascade
    /\ NoTables

\* instances with missing progress rows (instances older than the back-fill of
\* new items): the mixed checklists, where item 3 was added after the instance
\* was created and has no progress row, and the rows of items 1 and 2 are
\* missing, not completed or completed
InitMissing ==
    /\ \E g1, g2 \in [Rewards -> 0..MaxAmount], p2 \in {<<>>, <<ItemPrereq(1)>>},
          p3 \in {<<>>} \cup {<<p>> : p \in MixedPool}
                       \cup {pq \in MixedPool \X MixedPool : pq[1] # pq[2]} :
          items = MixedItems(g1, g2, p2, p3)
    /\ \E rows \in [1..2 -> {NoRow, ProgressRow(FALSE, 0), ProgressRow(TRUE, 1)}] :
          progress = <<rows[1], rows[2], NoRow>>
    /\ response = NoResponse
    /\ cascade = IdleCascade
    /\ NoTables

\* twins: the mixed checklists with two prerequisite rows on item 3, and an
\* item 4 that holds the same two rows in the other order; items 3 and 4 grant
\* nothing and nothing requires them
TwinItems(g1, g2, p2, p3) ==
    MixedItems(g1, g2, p2, p3)
    \o <<[location |-> 0, category |-> 0, rewards |-> [r \in Rewards |-> 0],
          prerequisites |-> Reverse(p3)]>>

InitTwin ==
    /\ \E g1, g2 \in [Rewards -> 0..MaxAmount], p2 \in {<<>>, <<ItemPrereq(1)>>},
          p3 \in {pq \in MixedPool \X MixedPool : pq[1] # pq[2]} :
          items = TwinItems(g1, g2, p2, p3)
    /\ progress \in ProgressStates(1..4)
    /\ response = NoResponse
    /\ cascade = IdleCascade
    /\ NoTables

\* a public checklist of one or two plain items that nobody has copied yet
InitSync ==
    /\ \E n \in 1..2 : items = [i \in 1..n |-> PlainItem]
    /\ progress = <<>>
    /\ response = NoResponse
    /\ cascade = IdleCascade
    /\ user_checklists = {}
    /\ user_progress = <<>>

Spec == Init /\ [][Next]_vars

SpecSync == InitSync /\ [][NextSync]_vars

SpecTwin == InitTwin /\ [][Next]_vars

\* the mixed checklists, with page views between the toggles
SpecView == InitMixed /\ [][NextView]_vars

SpecMissing == InitMissing /\ [][Next]_vars

SpecNotes == InitNotes /\ [][Next]_vars

SpecConsumers == InitConsumers /\ [][Next]_vars

SpecTally == InitTally /\ [][Next]_vars

SpecMixed == InitMixed /\ [][Next]_vars

SpecLedger == InitLedger /\ [][Next]_vars

SpecDag == InitDag /\ [][Next]_vars

SpecFan == InitFan /\ [][Next]_vars

SpecChain == InitChain /\ [][Next]_vars

\* one AJAX toggle request from any state of the general family, its cascade
\* executed one loop iteration per step
SpecCascade == Init /\ [][NextCascade]_vars

\* ================================================================== claims
\* the items that item i requires directly (item prerequisites)
RequiredItems(i) ==
    {items[i].prerequisites[k].prerequisite_item_id : k \in 1..Len(items[i].prerequisites)} \ {0}

\* the set of the elements of a sequence
Range(s) == {s[k] : k \in 1..Len(s)}
NoDuplicates(s) == \A k, l \in 1..Len(s) : s[k] = s[l] => k = l

\* the last request was an AJAX toggle that was committed and answered
JsonToggle(r) == r.op = "toggle" /\ r.kind = "json" /\ r.success

\* C1: a toggle of item X changes only X's stored progress row: in every step
\* every other item keeps its completed flag and completed_at, also when the
\* response lists it as locked.
C1_ToggleWritesOnlyToggledRow ==
    [][\A j \in Items : j # response'.item => progress'[j] = progress[j]]_vars

\* an item completed by its own toggle (completed_at = MaxTime) is reported
\* locked by a later toggle of another item and still holds its row
C1_Witness ==
    /\ JsonToggle(response)
    /\ \E j \in Items \ {response.item} :
          /\ j \in Range(response.locked_items)
          /\ progress[j] = ProgressRow(TRUE, MaxTime)

C3_TransitiveLock ==
    (JsonToggle(response) /\ ~response.completed)
    => \A j \in Items :
          (j > response.item /\ \A k \in (response.item + 1)..j : IsCompleted(progress, k))
          => j \in Range(response.locked_items)

\* item 1 of the fully completed chain was un-completed and every other item
\* is reported locked
C3_Witness ==
    /\ JsonToggle(response) /\ ~response.completed /\ response.item = 1
    /\ \A k \in Items \ {1} : IsCompleted(progress, k)
    /\ Range(response.locked_items) = Items \ {1}
    /\ Len(response.locked_items) = ChainLen - 1

\* C4: every item other than the toggled one whose chained satisfied status
\* differs before and after a toggle is in unlocked (now satisfied) or in
\* locked (now unsatisfied).
C4_CascadeComplete ==
    [][JsonToggle(response')
       => \A j \in Items \ {response'.item} :
             Satisfied(progress, j) # Satisfied(progress', j)
             => IF Satisfied(progress', j)
                THEN j \in Range(response'.unlocked_items)
                ELSE j \in Range(response'.locked_items)
      ]_vars

\* mixed dependency: the un-completed item is required by k, k grants a reward
\* that j requires, and both are reported locked while stored completed
C4_Witness ==
    /\ JsonToggle(response) /\ ~response.completed
    /\ \E j, k \in Items \ {response.item} :
          /\ j # k
          /\ response.item \in {items[k].prerequisites[n].prerequisite_item_id :
                                    n \in 1..Len(items[k].prerequisites)}
          /\ \E n \in 1..Len(items[j].prerequisites) :
                items[j].prerequisites[n].prerequisite_reward_id \in item_reward_ids(k)
          /\ IsCompleted(progress, j) /\ IsCompleted(progress, k)
          /\ {j, k} \subseteq Range(response.locked_items)

\* C5: an item is in unlocked only if it was unsatisfied before the toggle and
\* is satisfied after it, and in locked only if it was satisfied before and is
\* unsatisfied after it.
C5_TransitionsOnly ==
    [][JsonToggle(response')
       => \A j \in Items :
             /\ j \in Range(response'.unlocked_items)
                => ~Satisfied(progress, j) /\ Satisfied(progress', j)
             /\ j \in Range(response'.locked_items)
                => Satisfied(progress, j) /\ ~Satisfied(progress', j)
      ]_vars

\* C6: a toggle that un-completes an item returns an empty unlocked list.
C6_NoUnlockOnUncheck ==
    (JsonToggle(response) /\ ~response.completed) => response.unlocked_items = <<>>

\* the items whose only prerequisite is the item prerequisite on a
OnlyRequire(a) == {j \in Items \ {a} : items[j].prerequisites = <<ItemPrereq(a)>>}

\* C7: when several items have item A as their only prerequisite, completing A
\* returns exactly those items as unlocked and un-completing A returns exactly
\* those items as locked.
C7_ExactlyTheDependents ==
    (JsonToggle(response) /\ Cardinality(OnlyRequire(response.item)) >= 2)
    => IF response.completed
       THEN Range(response.unlocked_items) = OnlyRequire(response.item)
       ELSE Range(response.locked_items) = OnlyRequire(response.item)

\* the previous request un-completed item 1 and this one completes it again
RecheckOfFirst ==
    /\ response.op = "toggle" /\ response.item = 1
    /\ response.success /\ ~response.completed
    /\ JsonToggle(response') /\ response'.item = 1 /\ response'.completed

\* C8 as stated: re-checking A reports B in unlocked only if B's stored flag is
\* true, and does not report C in unlocked.
C8_RecheckAsStated ==
    [][RecheckOfFirst
       => /\ 2 \in Range(response'.unlocked_items) => IsCompleted(progress, 2)
          /\ 3 \notin Range(response'.unlocked_items)
      ]_vars

\* C8 amended: in the chain A -> B -> C, re-checking A right after un-checking
\* it reports B in unlocked whatever B's stored flag, and reports C in
\* unlocked exactly when B's stored completed flag is true.
C8_RecheckAmended ==
    [][RecheckOfFirst
       => /\ 2 \in Range(response'.unlocked_items)
          /\ 3 \in Range(response'.unlocked_items) <=> IsCompleted(progress, 2)
      ]_vars

\* item 1 was completed and both 2 and 3 are reported unlocked, 2 being stored
\* completed
C8_Witness ==
    /\ JsonToggle(response) /\ response.item = 1 /\ response.completed
    /\ IsCompleted(progress, 2)
    /\ {2, 3} \subseteq Range(response.unlocked_items)

\* C9: a chained satisfied check of any item returns a boolean and does not
\* exhaust the recursion limit, on every checklist of the family, cyclic ones
\* included.
C9_ResolverTerminates ==
    \A i \in Items :
        /\ ~Chained(progress, i).raised
        /\ Chained(progress, i).met \in BOOLEAN
        /\ Chained(progress, i).checked \subseteq Items

\* two stored-completed items require each other and the cascade of the last
\* toggle evaluated one of them
C9_Witness ==
    /\ JsonToggle(response)
    /\ \E i, j \in Items :
          /\ i # j
          /\ items[i].prerequisites = <<ItemPrereq(j)>>
          /\ items[j].prerequisites = <<ItemPrereq(i)>>
          /\ IsCompleted(progress, i) /\ IsCompleted(progress, j)
          /\ i \in Range(response.unlocked_items) \cup Range(response.locked_items)

\* S with everything S requires, n levels up
RECURSIVE UpstreamWithin(_, _)
UpstreamWithin(S, n) ==
    IF n = 0 THEN S
    ELSE UpstreamWithin(S \cup UNION {RequiredItems(j) : j \in S}, n - 1)

\* the transitive item-prerequisite ancestors of item i
Ancestors(i) == UpstreamWithin(RequiredItems(i), Cardinality(Items))

\* C11: on an acyclic checklist with item prerequisites only, an item is
\* satisfied in chained mode exactly when every transitive item-prerequisite
\* ancestor is stored completed (a completed direct prerequisite with an
\* incomplete upstream item leaves it unsatisfied; shared upstream items of a
\* diamond change nothing).
C11_ChainedIffAncestorsCompleted ==
    \A i \in Items :
        Satisfied(progress, i) <=> \A a \in Ancestors(i) : IsCompleted(progress, a)

\* a diamond: i requires j and k, both require a; a was just un-completed while
\* j and k stay stored completed, and i is reported locked
C11_Witness ==
    /\ JsonToggle(response) /\ ~response.completed
    /\ \E i, j, k \in Items \ {response.item} :
          /\ j # k
          /\ RequiredItems(i) = {j, k}
          /\ RequiredItems(j) = {response.item} /\ RequiredItems(k) = {response.item}
          /\ IsCompleted(progress, j) /\ IsCompleted(progress, k)
          /\ ~Satisfied(progress, i)
          /\ i \in Range(response.locked_items)

\* chained collected as the design states it: the grants of reward_id by the
\* stored-completed items that match the filters and are satisfied (chained)
ChainedCollected(prog, reward_id, location, category) ==
    SumOver([g \in Items |-> items[g].rewards[reward_id]],
            {g \in completed_item_ids(prog) :
                /\ items[g].rewards[reward_id] > 0
                /\ (location # 0 => items[g].location = location)
                /\ (category # 0 => items[g].category = category)
                /\ Satisfied(prog, g)})

\* row k of item i asks for more than what is available: collected (shallow or
\* chained) minus consumed, clamped at 0
BelowAvailable(prog, i, k, chained) ==
    LET p == items[i].prerequisites[k]
        collected == IF chained
                     THEN ChainedCollected(prog, p.prerequisite_reward_id,
                                           p.reward_location, p.reward_category)
                     ELSE get_reward_tally(prog, p.prerequisite_reward_id,
                                           p.reward_location, p.reward_category)
        consumed == get_consumed_rewards(prog, p.prerequisite_reward_id,
                                         p.reward_location, p.reward_category)
        available == IF collected > consumed THEN collected - consumed ELSE 0
    IN available < required_amount(p)

\* C12: a reward prerequisite is unmet exactly when available (collected minus
\* the amounts consumed by completed consuming prerequisites, clamped at 0) is
\* below the required amount.  Completion gate: a toggle completing item i is
\* accepted only when no reward prerequisite of i is below available, and
\* rejected only when one is or a required item is not completed.  Cascade: an
\* item reported unlocked has no reward prerequisite below available, and an
\* item reported locked that requires no item has one.
C12_UnmetIffBelowAvailable ==
    [][/\ \A i \in Items :
             (response'.op = "toggle" /\ response'.item = i /\ ~IsCompleted(progress, i))
             => IF response'.success
                THEN \A k \in reward_prereq_positions(i) : ~BelowAvailable(progress, i, k, FALSE)
                ELSE \/ \E k \in reward_prereq_positions(i) : BelowAvailable(progress, i, k, FALSE)
                     \/ \E j \in RequiredItems(i) : ~IsCompleted(progress, j)
       /\ JsonToggle(response')
          => /\ \A j \in Range(response'.unlocked_items) :
                   \A k \in reward_prereq_positions(j) : ~BelowAvailable(progress', j, k, TRUE)
             /\ \A j \in Range(response'.locked_items) :
                   RequiredItems(j) = {}
                   => \E k \in reward_prereq_positions(j) : BelowAvailable(progress', j, k, TRUE)
      ]_vars

\* C13: in chained mode the amount of a reward counted toward a prerequisite
\* is the sum of the grants of exactly the items that are stored completed,
\* match the prerequisite's filters and are themselves satisfied in chained
\* mode.
C13_ChainedCollectedExact ==
    \A i \in Items :
        \A n \in 1..Len(Chained(progress, i).counted) :
            LET c == Chained(progress, i).counted[n]
                p == items[i].prerequisites[c.position]
            IN c.collected = ChainedCollected(progress, p.prerequisite_reward_id,
                                              p.reward_location, p.reward_category)

\* what item i adds to the tally of reward r filtered by loc / cat
TallyShare(prog, i, r, loc, cat) ==
    IF /\ IsCompleted(prog, i)
       /\ loc = 0 \/ items[i].location = loc
       /\ cat = 0 \/ items[i].category = cat
    THEN items[i].rewards[r] ELSE 0

\* C14: get_reward_tally(R, location?, category?) is the sum of the grants of R
\* by the stored-completed items whose own location (category) equals the
\* filter when one is given; so a toggle changes a tally by exactly the
\* toggled item's share, and never the tally filtered to another location or
\* category than the toggled item's.
C14_ShallowCollected ==
    /\ [](\A r \in Rewards, loc \in Locations, cat \in Categories :
             get_reward_tally(progress, r, loc, cat)
             = SumOver([i \in Items |-> TallyShare(progress, i, r, loc, cat)], Items))
    /\ [][\A r \in Rewards, loc \in Locations, cat \in Categories :
             LET i == response'.item
                 before == get_reward_tally(progress, r, loc, cat)
                 after == get_reward_tally(progress', r, loc, cat)
             IN /\ after - before
                   = TallyShare(progress', i, r, loc, cat) - TallyShare(progress, i, r, loc, cat)
                /\ ((loc # 0 /\ items[i].location # loc) \/ (cat # 0 /\ items[i].category # cat))
                   => after = before
          ]_vars

\* items 1 and 2 grant at two different locations, both are completed, the
\* last toggle completed item 2, and each location's tally is its own item's
\* grant
C14_Witness ==
    /\ response.op = "toggle" /\ response.item = 2 /\ response.completed
    /\ items[1].location # 0 /\ items[2].location # 0
    /\ items[1].location # items[2].location
    /\ IsCompleted(progress, 1)
    /\ \A r \in Rewards :
          /\ get_reward_tally(progress, r, items[1].location, 0) = items[1].rewards[r]
          /\ get_reward_tally(progress, r, items[2].location, 0) = items[2].rewards[r]
          /\ get_reward_tally(progress, r, 0, 0) = items[1].rewards[r] + items[2].rewards[r]

\* what the rows k, k+1, .. of item i consume of reward r as seen through the
\* filter loc / cat: the amounts of the consuming rows whose own filter fits
RECURSIVE ConsumedShareFrom(_, _, _, _, _, _)
ConsumedShareFrom(prog, i, k, r, loc, cat) ==
    IF k > Len(items[i].prerequisites) THEN 0
    ELSE LET p == items[i].prerequisites[k]
             counts == /\ IsCompleted(prog, i)
                       /\ p.prerequisite_item_id = 0 /\ p.prerequisite_reward_id = r
                       /\ p.consumes_reward
                       /\ loc = 0 \/ p.reward_location = loc
                       /\ cat = 0 \/ p.reward_category = cat
         IN (IF counts THEN required_amount(p) ELSE 0)
            + ConsumedShareFrom(prog, i, k + 1, r, loc, cat)

\* C15: consumed(R, filters) is the sum of the required amounts of the
\* consuming reward prerequisites on R of the stored-completed items, selected
\* by the prerequisite's own location / category filter and not by the
\* consuming item's tags; non-consuming rows and rows of items that are not
\* completed add 0, so a toggle changes consumed by the toggled item's rows only.
C15_Consumed ==
    /\ [](\A r \in Rewards, loc \in Locations, cat \in Categories :
             get_consumed_rewards(progress, r, loc, cat)
             = SumOver([i \in Items |-> ConsumedShareFrom(progress, i, 1, r, loc, cat)], Items))
    /\ [][\A r \in Rewards, loc \in Locations, cat \in Categories :
             get_consumed_rewards(progress', r, loc, cat)
             - get_consumed_rewards(progress, r, loc, cat)
             = ConsumedShareFrom(progress', response'.item, 1, r, loc, cat)
               - ConsumedShareFrom(progress, response'.item, 1, r, loc, cat)
          ]_vars

\* item 2 sits at location 1 and its consuming prerequisite is filtered to
\* location 2; the last toggle completed it; it counts in consumed filtered
\* to location 2 and not in consumed filtered to location 1
C15_Witness ==
    /\ response.op = "toggle" /\ response.item = 2 /\ response.completed
    /\ items[2].location = 1
    /\ LET p == items[2].prerequisites[1]
       IN /\ p.consumes_reward /\ p.reward_location = 2
          /\ ~IsCompleted(progress, 3)
          /\ get_consumed_rewards(progress, p.prerequisite_reward_id, 2, 0) = p.reward_amount
          /\ get_consumed_rewards(progress, p.prerequisite_reward_id, 1, 0) = 0
          /\ get_consumed_rewards(progress, p.prerequisite_reward_id, 0, 0) = p.reward_amount

\* C16: available(R, filters) = max(0, collected - consumed) in every
\* reachable progress state: never negative, collected - consumed whenever
\* collected >= consumed, and 0 whenever consumed exceeds collected.
C16_AvailableClamped ==
    \A r \in Rewards, loc \in Locations, cat \in Categories :
        LET collected == SumOver([i \in Items |-> TallyShare(progress, i, r, loc, cat)], Items)
            consumed == SumOver([i \in Items |->
                                    ConsumedShareFrom(progress, i, 1, r, loc, cat)], Items)
            available == get_available_rewards(progress, r, loc, cat)
        IN /\ available >= 0
           /\ collected >= consumed => available = collected - consumed
           /\ consumed > collected => available = 0

\* the provider was just un-completed while both consumers stay completed:
\* more is consumed than collected and available is 0
C16_Witness ==
    /\ response.op = "toggle" /\ response.item = 1 /\ ~response.completed
    /\ IsCompleted(progress, 2) /\ IsCompleted(progress, 3)
    /\ \E r \in Rewards :
          /\ get_reward_tally(progress, r, 0, 0) = 0
          /\ get_consumed_rewards(progress, r, 0, 0) = MaxAmount + 1
          /\ get_available_rewards(progress, r, 0, 0) = 0

\* the (reward, location filter, category filter) combinations of the
\* consuming prerequisites of item i
ConsumingCombinations(i) ==
    {<<items[i].prerequisites[k].prerequisite_reward_id,
       items[i].prerequisites[k].reward_location,
       items[i].prerequisites[k].reward_category>> :
        k \in {n \in reward_prereq_positions(i) : items[i].prerequisites[n].consumes_reward}}

\* more of the combination is consumed than collected
Overdrawn(prog, combo) ==
    SumOver([i \in Items |-> ConsumedShareFrom(prog, i, 1, combo[1], combo[2], combo[3])], Items)
    > SumOver([i \in Items |-> TallyShare(prog, i, combo[1], combo[2], combo[3])], Items)

\* C17: for every combination used by a consuming prerequisite, when more is
\* consumed than collected every completed item with a consuming prerequisite
\* on exactly that combination is in problematic_items, all co-consumers
\* together; an item is flagged only for an overdrawn combination of its own,
\* so items that only grant are never flagged and nothing is flagged for a
\* combination with consumed <= collected.
C17_InsufficientRewardsFlagged ==
    LET problematic == get_items_with_insufficient_rewards(progress)
    IN /\ \A i \in Items :
             \A combo \in ConsumingCombinations(i) :
                (IsCompleted(progress, i) /\ Overdrawn(progress, combo)) => i \in problematic
       /\ \A i \in problematic :
             /\ IsCompleted(progress, i)
             /\ \E combo \in ConsumingCombinations(i) : Overdrawn(progress, combo)

\* the provider was just un-completed; items 2 and 3 consume from the same
\* filtered combination, stay completed and are both flagged, the provider is
\* not
C17_Witness ==
    /\ response.op = "toggle" /\ response.item = 1 /\ ~response.completed
    /\ ConsumingCombinations(2) = ConsumingCombinations(3)
    /\ \E combo \in ConsumingCombinations(2) : combo[2] # 0
    /\ get_items_with_insufficient_rewards(progress) = {2, 3}

\* row k of item i is a freeform note / a record with no populated column
IsFreeform(i, k) ==
    LET p == items[i].prerequisites[k]
    IN p.prerequisite_item_id = 0 /\ p.prerequisite_reward_id = 0 /\ p.freeform_text # 0

IsEmptyRecord(i, k) ==
    LET p == items[i].prerequisites[k]
    IN p.prerequisite_item_id = 0 /\ p.prerequisite_reward_id = 0 /\ p.freeform_text = 0

\* C18: a freeform prerequisite is in the unmet list of neither mode, so an
\* item with no prerequisites or with freeform prerequisites only is satisfied
\* in both modes in every progress state, and a toggle of it while it is not
\* completed completes it.
C18_FreeformNeverUnmet ==
    /\ [](\A i \in Items :
             /\ \A k \in 1..Len(items[i].prerequisites) :
                   IsFreeform(i, k)
                   => /\ k \notin Range(are_prerequisites_met(progress, i).unmet)
                      /\ k \notin Range(Chained(progress, i).unmet)
             /\ (\A k \in 1..Len(items[i].prerequisites) : IsFreeform(i, k))
                => are_prerequisites_met(progress, i).met /\ Satisfied(progress, i))
    /\ [][\A i \in Items :
             (/\ response'.op = "toggle" /\ response'.item = i /\ ~IsCompleted(progress, i)
              /\ \A k \in 1..Len(items[i].prerequisites) : IsFreeform(i, k))
             => response'.success /\ response'.completed /\ IsCompleted(progress', i)
          ]_vars

\* an item whose only row is a freeform note was just completed, in a state
\* where the gate rejects another item
C18_Witness ==
    /\ response.op = "toggle" /\ response.success /\ response.completed
    /\ Len(items[response.item].prerequisites) = 1
    /\ IsFreeform(response.item, 1)
    /\ \E j \in Items : Rejected(progress, j)

\* C19: a prerequisite record with no populated column (no required item, no
\* reward, no text) is in the unmet list of neither mode and raises nothing;
\* it never blocks: a toggle of a not-completed item is accepted whenever all
\* its other rows pass the gate's check, and no toggle of such an item ends in
\* an error.
C19_EmptyRecordSatisfied ==
    /\ [](\A i \in Items :
             \A k \in 1..Len(items[i].prerequisites) :
                IsEmptyRecord(i, k)
                => /\ k \notin Range(are_prerequisites_met(progress, i).unmet)
                   /\ k \notin Range(Chained(progress, i).unmet)
                   /\ ~Chained(progress, i).raised)
    /\ [][\A i \in Items :
             (/\ response'.op = "toggle" /\ response'.item = i
              /\ \E k \in 1..Len(items[i].prerequisites) : IsEmptyRecord(i, k))
             => /\ response'.kind # "error"
                /\ (/\ ~IsCompleted(progress, i)
                     /\ \A k \in 1..Len(items[i].prerequisites) :
                           IsEmptyRecord(i, k) \/ ~ShallowUnmet(progress, items[i].prerequisites[k]))
                   => response'.success /\ response'.completed /\ IsCompleted(progress', i)
          ]_vars

\* an item holding an empty record and an item prerequisite on a completed item
\* was just completed by an AJAX toggle
C19_Witness ==
    /\ JsonToggle(response) /\ response.completed
    /\ Len(items[response.item].prerequisites) = 2
    /\ IsEmptyRecord(response.item, 1)
    /\ items[response.item].prerequisites[2].prerequisite_item_id \in Items \ {response.item}
    /\ IsCompleted(progress, items[response.item].prerequisites[2].prerequisite_item_id)

\* prog with a not-completed row in the place of every missing row
WithRows(prog) ==
    [i \in DOMAIN prog |-> IF prog[i].exists THEN prog[i] ELSE ProgressRow(FALSE, 0)]

\* C20: a missing progress row counts as completed = false everywhere: an item
\* prerequisite on its item is unmet in both modes, its item's grants add 0 to
\* every tally, and both checks and the tally answer as they do with a
\* not-completed row in its place; a toggle of an item without a row creates
\* the row and completes the item when the gate's check passes, and is
\* rejected without an error when it does not.
C20_MissingRowIsNotCompleted ==
    /\ [](\A i \in Items :
             ~progress[i].exists
             => /\ \A j \in Items :
                      \A k \in 1..Len(items[j].prerequisites) :
                         items[j].prerequisites[k].prerequisite_item_id = i
                         => /\ k \in Range(are_prerequisites_met(progress, j).unmet)
                            /\ k \in Range(Chained(progress, j).unmet)
                /\ \A r \in Rewards : TallyShare(progress, i, r, 0, 0) = 0)
    /\ [](\A j \in Items :
             /\ are_prerequisites_met(progress, j) = are_prerequisites_met(WithRows(progress), j)
             /\ Chained(progress, j) = Chained(WithRows(progress), j)
             /\ \A r \in Rewards :
                   /\ get_reward_tally(progress, r, 0, 0) = get_reward_tally(WithRows(progress), r, 0, 0)
                   /\ get_reward_tally(progress, r, 0, 0)
                      = SumOver([i \in Items |-> TallyShare(progress, i, r, 0, 0)], Items))
    /\ [][\A i \in Items :
             (response'.op = "toggle" /\ response'.item = i /\ ~progress[i].exists)
             => /\ response'.kind # "error"
                /\ IF are_prerequisites_met(WithRows(progress), i).met
                   THEN /\ progress'[i].exists /\ progress'[i].completed
                        /\ progress'[i].completed_at \in Times
                        /\ response'.success /\ response'.completed
                   ELSE /\ ~response'.success /\ ~IsCompleted(progress', i)
          ]_vars

\* item 3, which had no row, was completed by an AJAX toggle while item 1 still
\* has no row; item 1 grants, and the tally counts nothing for it
C20_Witness ==
    /\ JsonToggle(response) /\ response.item = 3 /\ response.completed
    /\ progress[3].exists /\ progress[3].completed
    /\ ~progress[1].exists
    /\ \E r \in Rewards :
          /\ items[1].rewards[r] > 0
          /\ get_reward_tally(progress, r, 0, 0) = TallyShare(progress, 2, r, 0, 0)
    /\ items[3].prerequisites # <<>>

\* the lists of a cascade: no item twice, no item in both, never the toggled
\* item, and the resolver called at most once per item
CascadeListsOk(c, changed) ==
    /\ NoDuplicates(c.unlocked_items) /\ NoDuplicates(c.locked_items)
    /\ NoDuplicates(c.evaluated)
    /\ Range(c.unlocked_items) \cap Range(c.locked_items) = {}
    /\ changed \notin Range(c.unlocked_items) \cup Range(c.locked_items)
    /\ Range(c.evaluated) \subseteq c.processed_items
    /\ ~c.raised

\* the loop's variant: the items not yet processed, then the length of the queue
CascadeMeasure(c) ==
    Cardinality(Items \ c.processed_items) * (Cardinality(Items) + 1) + Len(c.items_to_check)

\* C10: the work loop of the cascade terminates (every iteration decreases the
\* variant, a natural number); processed_items only grows; each item is
\* evaluated at most once, so no item is twice in a list or in both lists, and
\* the toggled item is in neither.
C10_CascadeTerminates ==
    /\ [][(cascade.pc = "loop" /\ cascade'.pc = "loop")
          => /\ cascade.locals.processed_items \subseteq cascade'.locals.processed_items
             /\ cascade'.locals.processed_items \subseteq Items
             /\ CascadeMeasure(cascade'.locals) < CascadeMeasure(cascade.locals)]_vars
    /\ [](cascade.pc # "idle" => CascadeListsOk(cascade.locals, cascade.changed_item_id))

\* the toggled item is on a cycle of item prerequisites with j, and the cascade
\* has finished with j in a list
C10_Witness ==
    /\ cascade.pc = "done" /\ JsonToggle(response)
    /\ \E j \in Items \ {response.item} :
          /\ ItemPrereq(j) \in Range(items[response.item].prerequisites)
          /\ ItemPrereq(response.item) \in Range(items[j].prerequisites)
          /\ j \in Range(response.unlocked_items) \cup Range(response.locked_items)
          /\ j \in cascade.locals.processed_items

\* C24: completion is gated by chained satisfaction: a toggle of a not
\* completed item that is unsatisfied in chained mode is rejected and writes
\* nothing, and after every toggle that completed an item the item is
\* satisfied in chained mode.
C24_CompletionGatedByChained ==
    [][\A i \in Items :
          (response'.op = "toggle" /\ response'.item = i /\ ~IsCompleted(progress, i))
          => /\ ~Satisfied(progress, i) => (~response'.success /\ progress' = progress)
             /\ IsCompleted(progress', i) => Satisfied(progress', i)
      ]_vars

\* C26: un-completing is never rejected: a toggle of a stored-completed item
\* succeeds, is no error, and leaves the item's row not completed with an
\* empty completed_at, whatever depends on the item and whether or not its own
\* prerequisites are met.
C26_UncheckNeverRejected ==
    [][\A i \in Items :
          (response'.op = "toggle" /\ response'.item = i /\ IsCompleted(progress, i))
          => /\ response'.success /\ response'.kind # "error"
             /\ ~response'.completed
             /\ progress' = [progress EXCEPT ![i] = ProgressRow(FALSE, 0)]
      ]_vars

\* item 2 was un-completed by the last toggle while its own prerequisite
\* (item 1) is unmet and the completed item 3 requires it
C26_Witness ==
    /\ response.op = "toggle" /\ response.item = 2 /\ response.success
    /\ ~response.completed /\ progress[2] = ProgressRow(FALSE, 0)
    /\ ~are_prerequisites_met(progress, 2).met
    /\ ~IsCompleted(progress, 1)
    /\ IsCompleted(progress, 3) /\ 2 \in RequiredItems(3)
    /\ \E k \in reward_prereq_positions(3) : TRUE

\* the prerequisite rows of item i that the chained check reports unmet
ChainedUnmetRows(prog, i) ==
    {items[i].prerequisites[k] : k \in Range(Chained(prog, i).unmet)}

\* items i and j hold the same prerequisite rows in opposite orders, grant
\* nothing and are required by nothing
SameRowsOtherOrder(i, j) ==
    /\ i # j
    /\ items[j].prerequisites = Reverse(items[i].prerequisites)
    /\ \A r \in Rewards : items[i].rewards[r] = 0 /\ items[j].rewards[r] = 0
    /\ \A h \in Items : i \notin RequiredItems(h) /\ j \notin RequiredItems(h)

\* C27: order independence: for the same stored progress, two items that
\* differ only in the order of their prerequisite rows get the same chained
\* result and the same unmet prerequisites, in particular when one row is an
\* item prerequisite on Y and the other a reward prerequisite on a reward that
\* Y grants.
C27_OrderIndependent ==
    \A i, j \in Items :
        SameRowsOtherOrder(i, j)
        => /\ Chained(progress, i).met = Chained(progress, j).met
           /\ ChainedUnmetRows(progress, i) = ChainedUnmetRows(progress, j)

\* C28: chained mode is never more permissive than shallow mode: an item
\* satisfied in chained mode is satisfied in shallow mode, and every
\* prerequisite the shallow check reports unmet is reported unmet by the
\* chained check.
C28_ChainedImpliesShallow ==
    \A i \in Items :
        /\ Satisfied(progress, i) => are_prerequisites_met(progress, i).met
        /\ ~Chained(progress, i).raised
           => Range(are_prerequisites_met(progress, i).unmet) \subseteq Range(Chained(progress, i).unmet)

\* after a toggle, one item is satisfied in both modes through a reward
\* prerequisite, and another is satisfied in shallow mode only
C28_Witness ==
    /\ response.op = "toggle" /\ response.success
    /\ \E i \in Items :
          /\ reward_prereq_positions(i) # {}
          /\ Satisfied(progress, i) /\ are_prerequisites_met(progress, i).met
    /\ \E j \in Items :
          ~Satisfied(progress, j) /\ are_prerequisites_met(progress, j).met

\* prog with the items of X stored completed as well
CompletedToo(prog, X) ==
    [i \in DOMAIN prog |-> IF i \in X /\ ~IsCompleted(prog, i) THEN ProgressRow(TRUE, 1) ELSE prog[i]]

\* C29: monotonicity: for the same checklist, every item satisfied in chained
\* mode stays satisfied in chained mode when more items are stored completed
\* (so completing an item never locks a satisfied item, and un-completing one
\* never unlocks an unsatisfied item).
C29_Monotone ==
    \A X \in SUBSET Items :
        \A i \in Items :
            Satisfied(progress, i) => Satisfied(CompletedToo(progress, X), i)

\* after a toggle that completed an item, an item with a reward prerequisite
\* is satisfied, and another item is unsatisfied but becomes satisfied once
\* more items are completed
C29_Witness ==
    /\ response.op = "toggle" /\ response.success /\ response.completed
    /\ \E i \in Items : reward_prereq_positions(i) # {} /\ Satisfied(progress, i)
    /\ \E j \in Items, X \in SUBSET Items :
          ~Satisfied(progress, j) /\ Satisfied(CompletedToo(progress, X), j)

\* the items other than i whose grant matches the reward prerequisite at
\* position k of item i
OtherProviders(i, k) ==
    LET p == items[i].prerequisites[k]
    IN {j \in Items \ {i} :
           /\ items[j].rewards[p.prerequisite_reward_id] > 0
           /\ (p.reward_location # 0 => items[j].location = p.reward_location)
           /\ (p.reward_category # 0 => items[j].category = p.reward_category)}

\* item j supplies nothing: it is not stored completed, or it is locked
UncheckedOrLocked(prog, j) == ~IsCompleted(prog, j) \/ ~Satisfied(prog, j)

\* item b requires, at position k, a reward that it grants itself, and every
\* other provider of that reward is unchecked or locked
SelfSupplied(prog, b, k) ==
    /\ k \in reward_prereq_positions(b)
    /\ items[b].rewards[items[b].prerequisites[k].prerequisite_reward_id] > 0
    /\ \A j \in OtherProviders(b, k) : UncheckedOrLocked(prog, j)

DependsOn(x) ==
    RequiredItems(x) \cup UNION {OtherProviders(x, k) : k \in reward_prereq_positions(x)}

\* S with everything S depends on, n levels up
RECURSIVE DependenciesWithin(_, _)
DependenciesWithin(S, n) ==
    IF n = 0 THEN S
    ELSE DependenciesWithin(S \cup UNION {DependsOn(j) : j \in S}, n - 1)

\* an item prerequisite lies on a dependency cycle: some item requires an item
\* that depends, directly or through other items, on it
ItemPrerequisiteOnCycle ==
    \E x \in Items :
        \E y \in RequiredItems(x) :
            x \in DependenciesWithin({y}, Cardinality(Items))

C30_ToggleAndViewAgree ==
    [][(JsonToggle(response) /\ response'.op = "view")
       => /\ \A j \in Range(response.locked_items) : response'.item_locked[j]
          /\ \A j \in Range(response.unlocked_items) : ~response'.item_locked[j]
      ]_vars

\* C21: the resolver is a pure query.  A page view (shallow check and tallies
\* of every item) changes no stored progress and no checklist row; a toggle
\* writes no row but the toggled one, whatever its gate and its cascade
\* evaluate; a view directly after a view returns the same lock status, unmet
\* results and tallies; and evaluating again after the request returns what
\* the request's own evaluation returned: the view's lock flags and tallies,
\* and the chained result of every item the cascade reported.
C21_ResolverIsPureQuery ==
    /\ [][/\ response'.op = "view" => (progress' = progress /\ items' = items)
          /\ response'.op = "toggle"
             => \A j \in Items \ {response'.item} : progress'[j] = progress[j]
          /\ (response.op = "view" /\ response'.op = "view") => response' = response
         ]_vars
    /\ [](response.op = "view"
          => /\ response.item_locked = [i \in Items |-> ~are_prerequisites_met(progress, i).met]
             /\ \A key \in DOMAIN response.reward_tallies :
                   response.reward_tallies[key] = get_reward_tally(progress, key[1], key[2], key[3]))
    /\ [](JsonToggle(response)
          => /\ \A j \in Range(response.locked_items) : ~Satisfied(progress, j)
             /\ \A j \in Range(response.unlocked_items) : Satisfied(progress, j))

\* a page view after toggles: an item completed by a toggle, an item shown
\* locked, and a positive tally
C21_Witness ==
    /\ response.op = "view"
    /\ \E i \in Items : IsCompleted(progress, i) /\ progress[i].completed_at = MaxTime
    /\ \E j \in Items : response.item_locked[j]
    /\ \E key \in DOMAIN response.reward_tallies : response.reward_tallies[key] > 0

\* the ids of the instances
CopyIds == {c.id : c \in user_checklists}

\* C22: progress existence and uniqueness: after any sequence of copy,
\* add-item (single or batch), toggle and repeated copy requests every
\* instance has exactly one progress row for each item of the checklist and
\* every user at most one instance; the rows a copy or a back-fill creates
\* start not completed; and a copy request of a user who has an instance
\* creates no instance and no row.
C22_OneRowPerInstanceAndItem ==
    /\ [](/\ \A id \in CopyIds : \A i \in Items :
                /\ <<id, i>> \in DOMAIN user_progress
                /\ Len(user_progress[<<id, i>>]) = 1
          /\ \A u \in Users : Cardinality(copies_of(u)) <= 1
          /\ \A c, d \in user_checklists : c.id = d.id => c = d)
    /\ [][/\ response'.op \in {"copy", "add_item", "batch_update"}
             => \A key \in DOMAIN user_progress' \ DOMAIN user_progress :
                   user_progress'[key] = <<ProgressRow(FALSE, 0)>>
          /\ (response'.op = "copy" /\ copies_of(response'.item) # {})
             => (~response'.success /\ UNCHANGED tables)
         ]_vars

\* both users hold an instance, an item was added after the copies and a
\* repeated copy request was just refused; some row is completed
C22_Witness ==
    /\ response.op = "copy" /\ ~response.success
    /\ \A u \in Users : copies_of(u) # {}
    /\ MaxItemId \in Items
    /\ \E key \in DOMAIN user_progress : Head(user_progress[key]).completed

\* C23: no orphan progress: every progress row belongs to an existing
\* instance and an existing item.  A batch that deletes items removes the rows
\* of these items from every instance, keeps the other items and leaves the
\* instances and the rows of the other items as they were; deleting an instance
\* removes that instance and its rows and leaves the checklist's items, the
\* other instances and their rows as they were.
C23_NoOrphanProgress ==
    /\ [](\A key \in DOMAIN user_progress :
             key[1] \in CopyIds /\ key[2] \in Items /\ user_progress[key] # <<>>)
    /\ [][/\ response'.op = "batch_update"
             => LET deleted == DOMAIN items \ DOMAIN items'
                IN /\ user_checklists' = user_checklists
                   /\ DOMAIN items \ deleted \subseteq DOMAIN items'
                   /\ \A key \in DOMAIN user_progress :
                         IF key[2] \in deleted
                         THEN key \notin DOMAIN user_progress'
                         ELSE /\ key \in DOMAIN user_progress'
                              /\ user_progress'[key] = user_progress[key]
          /\ (response'.op = "delete_copy" /\ response'.success)
             => /\ items' = items
                /\ \E c \in copies_of(response'.item) :
                      /\ user_checklists' = user_checklists \ {c}
                      /\ DOMAIN user_progress' = {key \in DOMAIN user_progress : key[1] # c.id}
                      /\ \A key \in DOMAIN user_progress' :
                            user_progress'[key] = user_progress[key]
         ]_vars

\* item 1 was deleted by the last batch and instance 1 was deleted before; the
\* remaining instance still holds a completed row of a remaining item
C23_Witness ==
    /\ response.op = "batch_update"
    /\ 1 \notin Items /\ Items # {}
    /\ CopyIds = {2}
    /\ \E key \in DOMAIN user_progress : Head(user_progress[key]).completed
====
